---- MODULE Spec2Model ----
(***************************************************************************)
(* Model of ui/server/python/docling_parser.py: the command-line adapter   *)
(* that resolves a file path, hands it to the Docling converter, shapes    *)
(* the outcome into a JSON envelope and prints it.                         *)
(*                                                                         *)
(* Python strings that the program inspects (the path, the stdin line) are *)
(* sequences of one-character strings.  Values that come back from the     *)
(* collaborator are tagged records [t, s, n], so that a callable or an     *)
(* arbitrary object is distinguishable from a string, an int or None.      *)
(***************************************************************************)
EXTENDS Integers, Sequences, FiniteSets, TLC

\* ------------------------------------------------------------------ bounds
MaxPathLen == 3
MaxTables == 2

\* ------------------------------------------------------- program constants
\* json.dumps(result, ensure_ascii=False, indent=2)
Indent == 2
\* the indent of json.dumps when none is passed (None): a single line
NoIndent == 0
\* sys.exit(1)
ExitNoPath == 1
\* the status of a run that reaches the end of the script
ExitOk == 0
\* the status Python gives a run ended by an uncaught exception
ExitTraceback == 1

\* ------------------------------------------------------------ Python values
PyNone == [t |-> "none", s |-> "", n |-> 0]
PyStrV(x) == [t |-> "str", s |-> x, n |-> 0]
PyInt(k) == [t |-> "int", s |-> "", n |-> k]
\* a bound method or function object
PyCallable(x) == [t |-> "callable", s |-> x, n |-> 0]
\* any other object of the library (neither str, int, None nor callable)
PyObj(x) == [t |-> "obj", s |-> x, n |-> 0]

\* str(v): the text of a value; always a str
PyStr(v) ==
  CASE v.t = "str" -> v
    [] v.t = "none" -> PyStrV("None")
    [] v.t = "int" -> PyStrV("int")
    [] v.t = "callable" -> PyStrV("<bound method>")
    [] OTHER -> PyStrV("<object>")

\* callable(v)
PyIsCallable(v) == v.t = "callable"

\* what json.dumps accepts as a leaf value
JsonLeaf(v) == v.t \in {"none", "str", "int"}

\* ------------------------------------------------------------------ strings
PathChars == {"a", ".", "/"}
Whitespace == {" ", "\n"}

RECURSIVE StringsUpTo(_, _)
StringsUpTo(S, k) ==
  IF k = 0 THEN {<<>>}
  ELSE LET shorter == StringsUpTo(S, k - 1)
       IN shorter \cup {Append(s, c) : s \in {x \in shorter : Len(x) = k - 1}, c \in S}

Paths == StringsUpTo(PathChars, MaxPathLen)

\* str.strip(): leading and trailing whitespace removed
RECURSIVE LStrip(_)
LStrip(s) == IF s # <<>> /\ Head(s) \in Whitespace THEN LStrip(Tail(s)) ELSE s

RECURSIVE RStrip(_)
RStrip(s) ==
  IF s # <<>> /\ s[Len(s)] \in Whitespace THEN RStrip(SubSeq(s, 1, Len(s) - 1)) ELSE s

\* the line used as read, whitespace and newline included
StripNothing(s) == s

Strip(s) == RStrip(LStrip(s))

\* sys.stdin.readline(): up to and including the first newline, or to EOF
RECURSIVE ReadLine(_)
ReadLine(s) ==
  IF s = <<>> THEN <<>>
  ELSE IF Head(s) = "\n" THEN <<"\n">>
  ELSE <<Head(s)>> \o ReadLine(Tail(s))

\* ------------------------------------------------------------------ pathlib
\* PurePosixPath parsing: split on "/", drop empty and "." components
RECURSIVE SplitSlash(_, _)
SplitSlash(s, cur) ==
  IF s = <<>> THEN <<cur>>
  ELSE IF Head(s) = "/" THEN <<cur>> \o SplitSlash(Tail(s), <<>>)
  ELSE SplitSlash(Tail(s), Append(cur, Head(s)))

PathParts(p) == SelectSeq(SplitSlash(p, <<>>), LAMBDA c : c # <<>> /\ c # <<".">>)

\* the path itself taken for its name
PathNameWhole(p) == p

\* Path(p).name: the last component, "" when there is none
PathName(p) ==
  LET parts == PathParts(p) IN IF parts = <<>> THEN <<>> ELSE parts[Len(parts)]

\* str.rfind("."): the last index of a dot, 0 when there is none (1-based)
RECURSIVE RFindDot(_)
RFindDot(s) ==
  IF s = <<>> THEN 0 ELSE IF s[Len(s)] = "." THEN Len(s) ELSE RFindDot(SubSeq(s, 1, Len(s) - 1))

\* Path(p).suffix: name[i:] for the last dot i, when it is neither the first
\* nor the last character of the name; "" otherwise
PathSuffix(p) ==
  LET name == PathName(p)
      i == RFindDot(name)
  IN IF 1 < i /\ i < Len(name) THEN SubSeq(name, i, Len(name)) ELSE <<>>


\* ------------------------------------------------------------- collaborator
\* An optional attribute of a library object, as getattr(obj, name, None) sees it
Absent == [has |-> FALSE, v |-> PyNone]
Attr(v) == [has |-> TRUE, v |-> v]
GetAttr(a) == IF a.has THEN a.v ELSE PyNone

\* The tables a document may expose.  export is how the table's
\* export_to_markdown attribute behaves: a method that returns text, a method
\* that raises, a plain (non-callable) attribute, or no such attribute.
TableShapes ==
  { [export |-> "method", md |-> "t1", num_rows |-> Attr(PyInt(2)), num_cols |-> Attr(PyInt(3))],
    [export |-> "plain", md |-> "t2", num_rows |-> Absent, num_cols |-> Absent],
    [export |-> "absent", md |-> "t3", num_rows |-> Absent, num_cols |-> Attr(PyInt(3))],
    [export |-> "raises", md |-> "t4", num_rows |-> Absent, num_cols |-> Absent],
    [export |-> "method", md |-> "t5", num_rows |-> Attr(PyCallable("num_rows")),
     num_cols |-> Absent] }

\* How a document may expose its page count: not at all, as a plain int, as a
\* method, or through a property that raises.
PageAttrs ==
  { [raises |-> FALSE, a |-> Absent],
    [raises |-> FALSE, a |-> Attr(PyInt(7))],
    [raises |-> FALSE, a |-> Attr(PyCallable("num_pages"))],
    [raises |-> TRUE, a |-> Absent] }

TableSeqs == UNION {[1..k -> TableShapes] : k \in 0..MaxTables}

Docs == [tables : TableSeqs, num_pages : PageAttrs]

NoDoc == [tables |-> <<>>, num_pages |-> [raises |-> FALSE, a |-> Absent]]

\* what document.export_to_markdown() may hand back
MarkdownReturns == {PyStrV("# doc"), PyObj("markdown")}

\* -------------------------------------------------------------------- state
VARIABLES
  pc,         \* the statement the process is at
  argv,       \* sys.argv[1:]
  stdin,      \* the characters on standard input
  consumed,   \* how many of them the process has read
  file_path,  \* the resolved path (line 79 or 82)
  doc,        \* result.document, once convert returned
  markdown,   \* line 35
  tables,     \* line 38
  idx,        \* tables of the document already iterated
  num_pages,  \* lines 49-52
  exc,        \* str(e) of the exception caught at line 67
  result,     \* the dict parse_document returned
  stdout,     \* what was printed, in order
  exit_code,  \* <<>> while running, <<status>> once the process ended
  calls       \* operations of the collaborator invoked so far

vars == <<pc, argv, stdin, consumed, file_path, doc, markdown, tables, idx, num_pages, exc,
          result, stdout, exit_code, calls>>

\* ---------------------------------------------------------------- envelopes
NoResult == [unset |-> TRUE]
NoException == ""

\* lines 85-88
NoPathEnvelope == [success |-> FALSE, error |-> "No file path provided"]

\* lines 54-58
Metadata(pages, path) ==
  [num_pages |-> pages, file_type |-> PathSuffix(path), file_name |-> PathName(path)]

\* a success envelope that also carries an (empty) error message
SuccessEnvelopeWithError(md, tbls, meta) ==
  [success |-> TRUE, markdown |-> PyStr(md), tables |-> tbls, metadata |-> meta, error |-> ""]

\* lines 60-65
SuccessEnvelope(md, tbls, meta) ==
  [success |-> TRUE, markdown |-> PyStr(md), tables |-> tbls, metadata |-> meta]

\* a failure envelope that keeps the table records built before the exception
FailureEnvelopePartial(msg) ==
  [success |-> FALSE, error |-> msg, markdown |-> PyNone, tables |-> tables, metadata |-> <<>>]

\* lines 68-74
FailureEnvelope(msg) ==
  [success |-> FALSE, error |-> msg, markdown |-> PyNone, tables |-> <<>>, metadata |-> <<>>]

\* lines 42-46: the record of one table, given its rendered text
TableRecord(table, data) ==
  [data |-> data, num_rows |-> GetAttr(table.num_rows), num_cols |-> GetAttr(table.num_cols)]

\* line 41, the else branch: str(table)
TableRepr(table) == PyStr(PyObj(table.md))

\* json.dumps raises TypeError on a value it cannot encode
Serializable(env) ==
  /\ JsonLeaf(env.markdown)
  /\ \A i \in DOMAIN env.tables :
       /\ JsonLeaf(env.tables[i].data)
       /\ JsonLeaf(env.tables[i].num_rows)
       /\ JsonLeaf(env.tables[i].num_cols)
  /\ env.success => JsonLeaf(env.metadata.num_pages)

\* what standard input may hold: a path alone up to EOF, or padded with
\* whitespace and followed by a newline and a second line
StdinInputs ==
  {pad[1] \o p \o pad[2] : p \in Paths,
     pad \in {<<<<>>, <<>>>>, <<<<" ">>, <<" ", "\n", "a">>>>}}

Init ==
  /\ pc = "main"
  /\ \/ argv = <<>> /\ stdin \in StdinInputs
     \/ argv \in {<<p>> : p \in Paths} /\ stdin = <<"a", "\n">>
  /\ consumed = 0
  /\ file_path = <<>>
  /\ doc = NoDoc
  /\ markdown = PyNone
  /\ tables = <<>>
  /\ idx = 0
  /\ num_pages = PyNone
  /\ exc = NoException
  /\ result = NoResult
  /\ stdout = <<>>
  /\ exit_code = <<>>
  /\ calls = {}

parseVars == <<doc, markdown, tables, idx, num_pages, exc, result>>

\* lines 78-82
ResolvePath ==
  /\ pc = "main"
  /\ IF Len(argv) > 0
       THEN file_path' = argv[1] /\ consumed' = consumed
       ELSE LET line == ReadLine(stdin)
            IN /\ file_path' = Strip(line)
               /\ consumed' = Len(line)
  /\ pc' = "check"
  /\ UNCHANGED <<argv, stdin, stdout, exit_code, calls>>
  /\ UNCHANGED parseVars

\* lines 84-89
NoPath ==
  /\ pc = "check"
  /\ file_path = <<>>
  /\ stdout' = Append(stdout, [obj |-> NoPathEnvelope, indent |-> NoIndent, ensure_ascii |-> TRUE])
  /\ exit_code' = <<ExitNoPath>>
  /\ pc' = "exited"
  /\ UNCHANGED <<argv, stdin, consumed, file_path, calls>>
  /\ UNCHANGED parseVars

\* line 92: the call of parse_document
CallParse ==
  /\ pc = "check"
  /\ file_path # <<>>
  /\ pc' = "construct"
  /\ UNCHANGED <<argv, stdin, consumed, file_path, stdout, exit_code, calls>>
  /\ UNCHANGED parseVars

\* an exception raised inside the try block of parse_document
Raise(msg) ==
  /\ exc' = msg
  /\ pc' = "except"

\* line 29
Construct ==
  /\ pc = "construct"
  /\ calls' = calls \cup {"DocumentConverter"}
  /\ \/ Raise("converter construction failed")
     \/ pc' = "convert" /\ exc' = exc
  /\ UNCHANGED <<argv, stdin, consumed, file_path, stdout, exit_code>>
  /\ UNCHANGED <<doc, markdown, tables, idx, num_pages, result>>

\* line 32
Convert ==
  /\ pc = "convert"
  /\ calls' = calls \cup {"convert"}
  /\ \/ Raise("conversion failed") /\ doc' = doc
     \/ pc' = "export" /\ exc' = exc /\ doc' \in Docs
  /\ UNCHANGED <<argv, stdin, consumed, file_path, stdout, exit_code>>
  /\ UNCHANGED <<markdown, tables, idx, num_pages, result>>

\* line 35
ExportMarkdown ==
  /\ pc = "export"
  /\ calls' = calls \cup {"document.export_to_markdown"}
  /\ \/ Raise("markdown export failed") /\ markdown' = markdown
     \/ pc' = "tables" /\ exc' = exc /\ markdown' \in MarkdownReturns
  /\ UNCHANGED <<argv, stdin, consumed, file_path, stdout, exit_code>>
  /\ UNCHANGED <<doc, tables, idx, num_pages, result>>

\* line 39: reading document.tables, or advancing its iterator, raises
TablesRaise ==
  /\ pc = "tables"
  /\ Raise("iterating tables failed")
  /\ UNCHANGED <<argv, stdin, consumed, file_path, stdout, exit_code, calls>>
  /\ UNCHANGED <<doc, markdown, tables, idx, num_pages, result>>

\* lines 39-46: one iteration of the loop, on the next table of the document
TableStep ==
  /\ pc = "tables"
  /\ idx < Len(doc.tables)
  /\ LET table == doc.tables[idx + 1]
     IN CASE table.export = "absent" ->
               \* table.export_to_markdown is evaluated before hasattr sees it
               /\ Raise("object has no attribute export_to_markdown")
               /\ UNCHANGED <<tables, idx, calls>>
          [] table.export = "raises" ->
               /\ Raise("table export failed")
               /\ calls' = calls \cup {"table.export_to_markdown"}
               /\ UNCHANGED <<tables, idx>>
          [] table.export = "method" ->
               /\ tables' = Append(tables, TableRecord(table, PyStrV(table.md)))
               /\ calls' = calls \cup {"table.export_to_markdown"}
               /\ idx' = idx + 1
               /\ UNCHANGED <<pc, exc>>
          [] OTHER ->
               /\ tables' = Append(tables, TableRecord(table, TableRepr(table)))
               /\ idx' = idx + 1
               /\ UNCHANGED <<pc, exc, calls>>
  /\ UNCHANGED <<argv, stdin, consumed, file_path, stdout, exit_code>>
  /\ UNCHANGED <<doc, markdown, num_pages, result>>

\* line 39: the iterator is exhausted
TablesDone ==
  /\ pc = "tables"
  /\ idx = Len(doc.tables)
  /\ pc' = "pages"
  /\ UNCHANGED <<argv, stdin, consumed, file_path, stdout, exit_code, calls>>
  /\ UNCHANGED parseVars

\* the page count without the callable guard of lines 51-52
PageCountNoGuard(attr) == GetAttr(attr)

\* lines 49-52
PageCount(attr) ==
  LET v == GetAttr(attr) IN IF PyIsCallable(v) THEN PyNone ELSE v

ReadPages ==
  /\ pc = "pages"
  /\ IF doc.num_pages.raises
       THEN Raise("page count failed") /\ num_pages' = num_pages
       ELSE /\ num_pages' = PageCount(doc.num_pages.a)
            /\ pc' = "return"
            /\ exc' = exc
  /\ UNCHANGED <<argv, stdin, consumed, file_path, stdout, exit_code, calls>>
  /\ UNCHANGED <<doc, markdown, tables, idx, result>>

\* lines 54-65
Return ==
  /\ pc = "return"
  /\ result' = SuccessEnvelope(markdown, tables, Metadata(num_pages, file_path))
  /\ pc' = "dump"
  /\ UNCHANGED <<argv, stdin, consumed, file_path, stdout, exit_code, calls>>
  /\ UNCHANGED <<doc, markdown, tables, idx, num_pages, exc>>

\* lines 67-74
Except ==
  /\ pc = "except"
  /\ result' = FailureEnvelope(exc)
  /\ pc' = "dump"
  /\ UNCHANGED <<argv, stdin, consumed, file_path, stdout, exit_code, calls>>
  /\ UNCHANGED <<doc, markdown, tables, idx, num_pages, exc>>

\* line 95, json.dumps succeeds: the envelope is printed and the script ends
Dump ==
  /\ pc = "dump"
  /\ Serializable(result)
  /\ stdout' = Append(stdout, [obj |-> result, indent |-> Indent, ensure_ascii |-> FALSE])
  /\ exit_code' = <<ExitOk>>
  /\ pc' = "exited"
  /\ UNCHANGED <<argv, stdin, consumed, file_path, calls>>
  /\ UNCHANGED parseVars

\* line 95, json.dumps raises TypeError: nothing is printed, nothing catches it
DumpRaises ==
  /\ pc = "dump"
  /\ ~Serializable(result)
  /\ exit_code' = <<ExitTraceback>>
  /\ pc' = "crashed"
  /\ UNCHANGED <<argv, stdin, consumed, file_path, stdout, calls>>
  /\ UNCHANGED parseVars

Next ==
  \/ ResolvePath
  \/ NoPath
  \/ CallParse
  \/ Construct
  \/ Convert
  \/ ExportMarkdown
  \/ TablesRaise
  \/ TableStep
  \/ TablesDone
  \/ ReadPages
  \/ Return
  \/ Except
  \/ Dump
  \/ DumpRaises

Spec == Init /\ [][Next]_vars

\* ============================================================== properties
Finished == pc \in {"exited", "crashed"}

\* parse_document has returned its dict
Returned == pc \in {"dump", "exited", "crashed"} /\ file_path # <<>>

\* the first line of standard input holds nothing but whitespace
FirstLineBlank ==
  \A i \in 1..Len(stdin) :
    (\A j \in 1..(i - 1) : stdin[j] # "\n") => stdin[i] \in Whitespace

\* the first line of standard input, without its newline
FirstLine ==
  LET nl == {i \in 1..Len(stdin) : stdin[i] = "\n"}
      end == IF nl = {} THEN Len(stdin) ELSE (CHOOSE i \in nl : \A j \in nl : i <= j) - 1
  IN SubSeq(stdin, 1, end)

\* t is line without its leading and trailing whitespace
IsTrimOf(line, t) ==
  \E i \in 1..(Len(line) + 1) :
    /\ i + Len(t) - 1 <= Len(line)
    /\ SubSeq(line, i, i + Len(t) - 1) = t
    /\ \A j \in 1..Len(line) : (j < i \/ j >= i + Len(t)) => line[j] \in Whitespace
    /\ t # <<>> => t[1] \notin Whitespace /\ t[Len(t)] \notin Whitespace

\* the resolved path of the invocation is empty
ResolvedEmpty == IF argv # <<>> THEN argv[1] = <<>> ELSE FirstLineBlank

\* no operation of the collaborator raised
NoCollaboratorRaise ==
  exc \in {NoException, "object has no attribute export_to_markdown"}

\* rest holds only separators and "." components
TrivialTail(rest) ==
  /\ rest # <<>> => rest[1] = "/"
  /\ \A i \in 1..Len(rest) : rest[i] \in {"/", "."}
  /\ \A i \in 1..(Len(rest) - 1) : ~(rest[i] = "." /\ rest[i + 1] = ".")

\* n is the base name of path p: its last component, "." components and
\* trailing separators aside
IsBaseName(p, n) ==
  IF n = <<>>
    THEN /\ \A i \in 1..Len(p) : p[i] \in {"/", "."}
         /\ \A i \in 1..(Len(p) - 1) : ~(p[i] = "." /\ p[i + 1] = ".")
    ELSE /\ \A i \in 1..Len(n) : n[i] # "/"
         /\ n # <<".">>
         /\ \E i \in 1..Len(p) :
              /\ i + Len(n) - 1 <= Len(p)
              /\ SubSeq(p, i, i + Len(n) - 1) = n
              /\ i = 1 \/ p[i - 1] = "/"
              /\ TrivialTail(SubSeq(p, i + Len(n), Len(p)))

\* e is the extension of the name n, leading dot included: what follows the
\* last dot of n, dot included; none when n has no dot or its last dot is its
\* first or its last character
IsExtension(n, e) ==
  IF e = <<>>
    THEN \A i \in 2..(Len(n) - 1) : n[i] = "." => n[Len(n)] = "."
    ELSE /\ Len(e) >= 2 /\ Len(e) < Len(n)
         /\ e[1] = "."
         /\ \A i \in 2..Len(e) : e[i] # "."
         /\ SubSeq(n, Len(n) - Len(e) + 1, Len(n)) = e

\* C1: an invocation with no argument whose first stdin line is blank never
\* calls the converter, and ends having printed exactly the envelope
\* {success: false, error: "No file path provided"} with exit status 1.
C1_NoPathProvided ==
  (argv = <<>> /\ FirstLineBlank) =>
    /\ calls = {}
    /\ pc \in {"main", "check", "exited"}
    /\ pc = "exited" =>
         /\ Len(stdout) = 1
         /\ stdout[1].obj = [success |-> FALSE, error |-> "No file path provided"]
         /\ exit_code = <<1>>

C1_Witness ==
  /\ pc = "exited"
  /\ argv = <<>>
  /\ stdin = <<" ", " ", "\n", "a">>
  /\ exit_code = <<1>>

\* C2: when an exception is raised at any step of parse_document, the run
\* ends with exit status 0 having printed one envelope with success=false,
\* the exception's text as error, markdown null, tables [] and metadata {}.
C2_FailureEnvelope ==
  (Finished /\ file_path # <<>> /\ exc # NoException) =>
    /\ pc = "exited"
    /\ exit_code = <<0>>
    /\ Len(stdout) = 1
    /\ stdout[1].obj.success = FALSE
    /\ stdout[1].obj.error = exc
    /\ stdout[1].obj.markdown = PyNone
    /\ stdout[1].obj.tables = <<>>
    /\ DOMAIN stdout[1].obj.metadata = {}

\* the second table raised after the record of the first was built
C2_Witness ==
  /\ pc = "exited"
  /\ exc = "table export failed"
  /\ Len(tables) = 1
  /\ stdout # <<>>

\* C3: the exit status is 1 exactly when the resolved path is empty and 0 in
\* every other case.
C3_ExitStatus ==
  Finished => /\ (exit_code = <<1>>) <=> ResolvedEmpty
              /\ ~ResolvedEmpty => exit_code = <<0>>

\* C4: every envelope built or printed has either the success payload or the
\* error: success=true with a markdown string and no error, or success=false
\* with an error string and markdown, tables and metadata null, empty or absent.
EnvelopeExclusive(env) ==
  IF env.success
    THEN /\ "error" \notin DOMAIN env
         /\ env.markdown.t = "str"
    ELSE /\ "error" \in DOMAIN env
         /\ "markdown" \in DOMAIN env => env.markdown = PyNone
         /\ "tables" \in DOMAIN env => env.tables = <<>>
         /\ "metadata" \in DOMAIN env => DOMAIN env.metadata = {}

C4_ExactlyOne ==
  /\ \A i \in 1..Len(stdout) : EnvelopeExclusive(stdout[i].obj)
  /\ Returned => EnvelopeExclusive(result)

C4_Witness ==
  /\ pc = "exited"
  /\ Len(stdout) = 1
  /\ stdout[1].obj.success
  /\ Len(stdout[1].obj.tables) = 2

\* C5: when the converter returned a document with N tables and no operation
\* of the collaborator raised, the envelope has N table records, the i-th
\* built from the i-th table, each with a data string and with num_rows and
\* num_cols (null when the table does not expose them).
C5_TableRecords ==
  (Returned /\ "convert" \in calls /\ NoCollaboratorRaise) =>
    /\ Len(result.tables) = Len(doc.tables)
    /\ \A i \in 1..Len(doc.tables) :
         /\ result.tables[i].data.t = "str"
         /\ doc.tables[i].export = "method" => result.tables[i].data.s = doc.tables[i].md
         /\ result.tables[i].num_rows =
              (IF doc.tables[i].num_rows.has THEN doc.tables[i].num_rows.v ELSE PyNone)
         /\ result.tables[i].num_cols =
              (IF doc.tables[i].num_cols.has THEN doc.tables[i].num_cols.v ELSE PyNone)

\* C6: a table without a markdown-export operation is tolerated: when no
\* operation of the collaborator raised, the result is a success envelope in
\* which that table's record carries the table's string representation.
C6_MissingExportTolerated ==
  (Returned /\ "convert" \in calls /\ NoCollaboratorRaise) =>
    \A i \in 1..Len(doc.tables) :
      doc.tables[i].export = "absent" =>
        /\ result.success
        /\ Len(result.tables) >= i
        /\ result.tables[i].data = PyStrV("<object>")

C9_NoEscape ==
  (Finished /\ file_path # <<>>) => pc = "exited" /\ Len(stdout) = 1

\* C10: every finished run has written exactly one JSON object, printed with
\* indentation and with non-ASCII characters left as they are, of the
\* ParseResult shape.
C10_OneIndentedObject ==
  Finished =>
    /\ Len(stdout) = 1
    /\ stdout[1].indent = Indent
    /\ stdout[1].ensure_ascii = FALSE
    /\ "success" \in DOMAIN stdout[1].obj
    /\ IF stdout[1].obj.success
         THEN {"markdown", "tables", "metadata"} \subseteq DOMAIN stdout[1].obj
         ELSE "error" \in DOMAIN stdout[1].obj

====
